---- MODULE Spec2Model ----
(***************************************************************************)
(* Model of the korli chat turn engine: the /chat/invoke route             *)
(* (app/routes/chat_route.py) driving the LangGraph workflow of            *)
(* app/features/chat/graph.py over the ChatState channels of               *)
(* app/features/chat/state.py, with the Postgres checkpointer of           *)
(* app/services/graph_runtime.py persisting the channel values of a        *)
(* thread after the input is applied and after every super-step.           *)
(*                                                                         *)
(* The service layer is modelled next to it: the gates and LimitGroup of   *)
(* app/services/concurrency.py (SpecLimiter, SpecLimiterFair, SpecNested)  *)
(* and the retried audio and storage calls of app/services/audio           *)
(* (SpecRetry). No chat action touches the gates: no code enters them.     *)
(* Further specifications look at one part each: SpecCompact (the summary  *)
(* node on its own), SpecThreads (requests of several threads              *)
(* interleaving), SpecPerUser (the per-user gate), SpecCancel (a task      *)
(* cancelled in LimitGroup.__aenter__), SpecBusy (STT_SEM under load).     *)
(*                                                                         *)
(* Optional[...] values are modelled as sequences of length <= 1:          *)
(* None is <<>> and a present value v is <<v>>.                            *)
(***************************************************************************)
EXTENDS Integers, Sequences, FiniteSets, TLC

VARIABLES
    store,      \* thread id -> channel values of the thread's latest checkpoint
    pc,         \* position of the request being processed
    req,        \* the ChatInput being processed: [thread_id, message, params]
    pre,        \* channel values of the request's thread when the request arrived
    task,       \* status of each node that calls the LLM, in this request
    writes,     \* the update each of these nodes returned, in this request
    resp,       \* the structured response each of these nodes got from the LLM
    snap,       \* channel values the fan-out super-step started from
    uid,        \* source of fresh message ids (uuid4 in add_messages)
    outcome,    \* HTTP outcome of the request: "none", "200", "422", "500"
    nreq,       \* number of requests received so far
    limit,      \* gate -> number of permits the gate was created with
    sem,        \* gate -> [value, waiters] of its asyncio.Semaphore
    lg,         \* task -> its passage through a LimitGroup
    rc,         \* call -> its passage through a retried audio/storage call
    stt,        \* [value, waiters] of STT_SEM
    susp        \* the request whose handler is suspended while another one runs

\* what no step of the request in hand touches: the state of
\* app/services/concurrency.py and app/services/audio, and the request that
\* is suspended
aux == <<limit, sem, lg, rc, stt, susp>>

vars == <<store, pc, req, pre, task, writes, resp, snap, uid, outcome, nreq,
          limit, sem, lg, rc, stt, susp>>

----------------------------------------------------------------------------
(* Bounds of the exploration *)

MaxRequests == 3

\* number of audio/storage calls followed
MaxCalls == 2

\* most turns of a session handed to summarize_conversation on its own
MaxCompactTurns == 22

\* largest number of permits a gate is given when the limits are varied
MaxGateLimit == 3

\* number of requests followed when requests of several threads interleave
MaxThreadRequests == 2

----------------------------------------------------------------------------
(* Program constants *)

MESSAGES_BEFORE_SUMMARY == 30
MESSAGES_TO_KEEP == 20

None == <<>>
Some(v) == <<v>>

Threads == {"t1"}

InitFields == {"student_level", "foreign_language", "native_language",
               "tutor_gender", "student_gender"}
RequiredFields == {"student_level", "foreign_language", "native_language"}

\* channels of ChatState (messages is inherited from MessagesState)
Channels == InitFields \cup {"messages", "summary", "prompt_helper", "corrections"}

----------------------------------------------------------------------------
(* Request payloads explored *)

Params(l, f, n, tg, sg) ==
    [student_level |-> l, foreign_language |-> f, native_language |-> n,
     tutor_gender |-> tg, student_gender |-> sg]

ParamChoices ==
    { Params(None, None, None, None, None),
      Params(Some("A1"), Some("French"), Some("English (US)"), None, None),
      Params(Some("B2"), Some("Spanish (Spain)"), Some("French"), Some("female"), Some("male")),
      Params(Some(""), Some("French"), None, None, None),
      Params(Some("A1"), Some("Klingon"), Some("English (US)"), None, None) }

MessageChoices == {None, Some("hola")}

\* results the structured LLM calls can return
TurnResults ==
    {[foreign_language_message |-> "bonjour", native_language_message |-> "hello"]}
CorrectionResults ==
    {[corrected_foreign_language |-> "hola!", native_language_message |-> "hi!", corrected |-> TRUE],
     [corrected_foreign_language |-> "", native_language_message |-> "hi", corrected |-> FALSE],
     [corrected_foreign_language |-> "hola!", native_language_message |-> "hi", corrected |-> FALSE]}
SummaryResults == {[summary |-> ""], [summary |-> "sumA"], [summary |-> "sumB"]}

----------------------------------------------------------------------------
(* Messages and the channel reducers *)

NoId == 0
Message(id, type, content) == [id |-> id, type |-> type, content |-> content]
RemoveMessage(id) == Message(id, "remove", "")

NoUpdate == <<>>

Max(a, b) == IF a >= b THEN a ELSE b

\* variant of preserve_existing with a slip: the first value ever stored wins
preserve_existing_first_wins(existing, new) == IF existing # None THEN existing ELSE new

\* state.py: preserve_existing
preserve_existing(existing, new) == IF new # None THEN new ELSE existing

\* add_messages gives every message that has no id a fresh uuid
RECURSIVE AssignIds(_, _)
AssignIds(ms, fresh) ==
    IF ms = <<>> THEN <<>>
    ELSE IF Head(ms).id = NoId
         THEN <<[Head(ms) EXCEPT !.id = fresh]>> \o AssignIds(Tail(ms), fresh + 1)
         ELSE <<Head(ms)>> \o AssignIds(Tail(ms), fresh)

NumNew(ms) == Cardinality({i \in DOMAIN ms : ms[i].id = NoId})

\* add_messages: a message whose id is already present replaces it (a
\* RemoveMessage deletes it), any other message is appended.  Removing an id
\* that is not present raises in the library; the graph only ever removes ids
\* it has just read from the state, so that branch leaves the list alone here.
RECURSIVE MergeById(_, _, _)
MergeById(merged, remove, right) ==
    IF right = <<>> THEN SelectSeq(merged, LAMBDA m : m.id \notin remove)
    ELSE LET m == Head(right)
             idx == {i \in DOMAIN merged : merged[i].id = m.id}
         IN IF idx # {}
            THEN IF m.type = "remove"
                 THEN MergeById(merged, remove \cup {m.id}, Tail(right))
                 ELSE MergeById([merged EXCEPT ![CHOOSE i \in idx : TRUE] = m],
                                remove \ {m.id}, Tail(right))
            ELSE IF m.type = "remove"
                 THEN MergeById(merged, remove, Tail(right))
                 ELSE MergeById(Append(merged, m), remove, Tail(right))

add_messages(left, right, fresh) == MergeById(left, {}, AssignIds(right, fresh))

\* the reducer of each ChatState channel: add_messages for messages,
\* preserve_existing for the annotated fields, last value wins for the rest
Reduce(k, old, new, fresh) ==
    IF k = "messages" THEN add_messages(old, new, fresh)
    ELSE IF k \in InitFields \cup {"prompt_helper"} THEN preserve_existing(old, new)
    ELSE new

\* applying one node's (or the input's) update to the channel values
ApplyUpdate(values, update, fresh) ==
    [k \in Channels |->
        IF k \in DOMAIN update THEN Reduce(k, values[k], update[k], fresh)
        ELSE values[k]]

NewIds(update) == IF "messages" \in DOMAIN update THEN NumNew(update.messages) ELSE 0

\* the writes of the tasks of one super-step, applied in task order
RECURSIVE ApplyWrites(_, _, _)
ApplyWrites(values, updates, fresh) ==
    IF updates = <<>> THEN values
    ELSE ApplyWrites(ApplyUpdate(values, Head(updates), fresh), Tail(updates),
                     fresh + NewIds(Head(updates)))

RECURSIVE SumNewIds(_)
SumNewIds(updates) ==
    IF updates = <<>> THEN 0 ELSE NewIds(Head(updates)) + SumNewIds(Tail(updates))

----------------------------------------------------------------------------
(* The session of a thread *)

NoCorrections == <<>>

EmptyState ==
    [k \in Channels |->
        IF k = "messages" THEN <<>>
        ELSE IF k = "summary" THEN ""
        ELSE IF k = "corrections" THEN NoCorrections
        ELSE None]

ChatPromptHelper(student_level, foreign_language, native_language) ==
    [student_level |-> student_level, foreign_language |-> foreign_language,
     native_language |-> native_language]

\* services/language_validation.py: some keys of LANGUAGE_MAP
SupportedLanguages == {"French", "Spanish (Spain)", "English"}

is_language_supported(language) == language \in SupportedLanguages

\* get_language_greeting validates the language first: ValueError when it is
\* empty or not a key of LANGUAGE_MAP
get_language_greeting_raises(language) ==
    language = "" \/ ~is_language_supported(language)

\* building the opening prompt asks the language metadata for the greeting of
\* the language being learned
human_initial_prompt_raises(prompt_helper) ==
    get_language_greeting_raises(prompt_helper.foreign_language)

\* dict.get(key, default) on the state handed to a node: a channel that was
\* never written is absent from it
Get(v, default) == IF v = None THEN default ELSE v[1]

----------------------------------------------------------------------------
(* chat_route.py *)

Falsy(v) == v = None \/ v = Some("")

\* variant of _validate_init_requirements with a slip: the test on the message
\* is inverted
_validate_init_requirements_inverted(body) ==
    IF body.message # None
    THEN {f \in RequiredFields : Falsy(body.params[f])}
    ELSE {}

\* variant of _validate_init_requirements with a slip: the request is turned
\* down only when all three fields are missing
_validate_init_requirements_all_missing(body) ==
    IF body.message = None /\ \A f \in RequiredFields : Falsy(body.params[f])
    THEN RequiredFields
    ELSE {}

_validate_init_requirements(body) ==
    IF body.message = None
    THEN {f \in RequiredFields : Falsy(body.params[f])}
    ELSE {}

_build_state(body) ==
    LET keys == (IF body.message # None THEN {"messages"} ELSE {})
                \cup {f \in InitFields : body.params[f] # None}
    IN [k \in keys |->
            IF k = "messages" THEN <<Message(NoId, "human", body.message[1])>>
            ELSE body.params[k]]

----------------------------------------------------------------------------
(* graph.py and nodes.py: the nodes, as functions from the state they read *)
(* (and the structured LLM response) to the update they return             *)

\* variant of initialize_state with a slip: the "already initialized" test is gone
initialize_state_rebuilds(state) ==
    [prompt_helper |->
         Some(ChatPromptHelper(Get(state.student_level, "B2"),
                               Get(state.foreign_language, "Spanish (Spain)"),
                               Get(state.native_language, "English (US)"))),
     summary |-> state.summary]

initialize_state(state) ==
    IF state.prompt_helper # None THEN NoUpdate
    ELSE [prompt_helper |->
              Some(ChatPromptHelper(Get(state.student_level, "B2"),
                                    Get(state.foreign_language, "Spanish (Spain)"),
                                    Get(state.native_language, "English (US)"))),
          summary |-> state.summary]

\* variant of route_after_init with a slip: the branches are swapped
route_after_init_swapped(state) ==
    IF Len(state.messages) > 0 THEN "generate_initial_question"
    ELSE "continue_conversation"

route_after_init(state) ==
    IF Len(state.messages) > 0 THEN "continue_conversation"
    ELSE "generate_initial_question"

\* variant of generate_initial_question with a slip: greeting and translation
\* are posted as two turns
generate_initial_question_two_turns(state, response) ==
    [messages |-> <<Message(NoId, "ai", response.foreign_language_message),
                    Message(NoId, "ai", response.native_language_message)>>]

\* variant of generate_initial_question with a slip: the turn is the stock
\* greeting of the language, the LLM's answer is dropped
generate_initial_question_canned(state, response) ==
    [messages |-> <<Message(NoId, "ai", "Bonjour ! Comment ca va ?")>>]

generate_initial_question(state, response) ==
    [messages |-> <<Message(NoId, "ai", response.foreign_language_message)>>]

\* variant of call_model with a slip: the answer is posted under the id of the
\* turn it answers
call_model_reuses_id(state, response) ==
    [messages |-> <<Message(state.messages[Len(state.messages)].id, "ai",
                            response.foreign_language_message)>>]

call_model(state, response) ==
    [messages |-> <<Message(NoId, "ai", response.foreign_language_message)>>]

\* variant of should_summarize with a slip: the threshold itself triggers
should_summarize_inclusive(state) == Len(state.messages) >= MESSAGES_BEFORE_SUMMARY

\* variant of should_summarize with a slip: one turn too many is let through
should_summarize_late(state) == Len(state.messages) > MESSAGES_BEFORE_SUMMARY + 1

should_summarize(state) == Len(state.messages) > MESSAGES_BEFORE_SUMMARY

\* Python's s[:-k]
AllButLast(s, k) == IF k = 0 THEN <<>> ELSE SubSeq(s, 1, Max(Len(s) - k, 0))

\* variant of summarize_conversation with a slip: the wrong constant bounds the
\* kept window
summarize_conversation_wrong_window(state, response) ==
    LET messages_to_summarize == AllButLast(state.messages, MESSAGES_BEFORE_SUMMARY)
    IN [summary |-> response.summary,
        messages |-> [i \in 1..Len(messages_to_summarize) |->
                          RemoveMessage(messages_to_summarize[i].id)]]

\* what summarize_conversation hands to create_summary_prompts: the turns to
\* summarize and the summary so far
summary_prompt_input(state) ==
    [messages_to_summarize |-> AllButLast(state.messages, MESSAGES_TO_KEEP),
     existing_summary |-> state.summary]

\* variant of summarize_conversation with a slip: the slice taken is
\* messages[MESSAGES_TO_KEEP:], the newest turns go and the oldest stay
summarize_conversation_keeps_oldest(state, response) ==
    LET messages_to_summarize ==
            SubSeq(state.messages, MESSAGES_TO_KEEP + 1, Len(state.messages))
    IN [summary |-> response.summary,
        messages |-> [i \in 1..Len(messages_to_summarize) |->
                          RemoveMessage(messages_to_summarize[i].id)]]

\* variant of summarize_conversation with a slip: turns that were not
\* summarized are deleted too
summarize_conversation_deletes_more(state, response) ==
    LET messages_to_delete == AllButLast(state.messages, MESSAGES_TO_KEEP - 10)
    IN [summary |-> response.summary,
        messages |-> [i \in 1..Len(messages_to_delete) |->
                          RemoveMessage(messages_to_delete[i].id)]]

\* variant of summarize_conversation with a slip: the corrections are purged
\* with the turns
summarize_conversation_purges_corrections(state, response) ==
    LET messages_to_summarize == AllButLast(state.messages, MESSAGES_TO_KEEP)
    IN [summary |-> response.summary,
        corrections |-> NoCorrections,
        messages |-> [i \in 1..Len(messages_to_summarize) |->
                          RemoveMessage(messages_to_summarize[i].id)]]

summarize_conversation(state, response) ==
    LET messages_to_summarize == AllButLast(state.messages, MESSAGES_TO_KEEP)
    IN [summary |-> response.summary,
        messages |-> [i \in 1..Len(messages_to_summarize) |->
                          RemoveMessage(messages_to_summarize[i].id)]]

\* variant of correct_response with a slip: the correction is also posted as a turn
correct_response_posts_turn(state, response) ==
    LET message == state.messages[Len(state.messages)]
        correction_record ==
            [corrected_message |-> IF response.corrected
                                   THEN response.corrected_foreign_language ELSE "",
             translation |-> response.native_language_message,
             corrected |-> response.corrected]
    IN [corrections |-> (message.id :> correction_record),
        messages |-> <<Message(NoId, "human", correction_record.corrected_message)>>]

correct_response(state, response) ==
    LET message == state.messages[Len(state.messages)]
        correction_record ==
            [corrected_message |-> IF response.corrected
                                   THEN response.corrected_foreign_language ELSE "",
             translation |-> response.native_language_message,
             corrected |-> response.corrected]
    IN [corrections |-> (message.id :> correction_record)]

----------------------------------------------------------------------------
(* Sessions a thread can hold when the process starts: the checkpoints     *)
(* outlive the process, so besides a thread never seen there are threads   *)
(* that earlier requests have grown to just below the summary threshold.   *)
(* Grown(n) is what n successful turns leave: alternating turns ending     *)
(* with the tutor's, the parameters of the first request, and the          *)
(* correction of the last student turn.                                    *)

Grown(n) ==
    [k \in Channels |->
        IF k = "messages"
            THEN [i \in 1..n |->
                     IF (n - i) % 2 = 0 THEN Message(i, "ai", "bonjour")
                     ELSE Message(i, "human", "hola")]
        ELSE IF k = "summary" THEN ""
        ELSE IF k = "corrections"
            THEN ((n - 1) :> [corrected_message |-> "", translation |-> "hi",
                              corrected |-> FALSE])
        ELSE IF k = "prompt_helper"
            THEN Some(ChatPromptHelper("A1", "French", "English (US)"))
        ELSE IF k = "student_level" THEN Some("A1")
        ELSE IF k = "foreign_language" THEN Some("French")
        ELSE IF k = "native_language" THEN Some("English (US)")
        ELSE None]

StartLens == (MESSAGES_BEFORE_SUMMARY - 2) .. MESSAGES_BEFORE_SUMMARY

\* Grown(n) whose last request carried new parameters: they are stored, the
\* prompt_helper is still the one built on first contact
Reconfigured(n) ==
    [Grown(n) EXCEPT !["student_level"] = Some("B2"),
                     !["foreign_language"] = Some("Spanish (Spain)"),
                     !["native_language"] = Some("French"),
                     !["tutor_gender"] = Some("female"),
                     !["student_gender"] = Some("male")]

StartSessions ==
    {EmptyState} \cup {Grown(n) : n \in StartLens}
                 \cup {Reconfigured(MESSAGES_BEFORE_SUMMARY - 2)}

NoRequest == [thread_id |-> "", message |-> None,
              params |-> [f \in InitFields |-> None]]

\* the nodes that call the LLM
LLMNodes == {"generate_initial_question", "call_model", "correct_response",
             "summarize_conversation"}

IdleTasks == [n \in LLMNodes |-> "idle"]
NoWrites == [n \in LLMNodes |-> NoUpdate]
NoResponses == [n \in LLMNodes |-> None]

\* what a request handler carries from one step to the next
Context == [pc |-> pc, req |-> req, pre |-> pre, task |-> task,
            writes |-> writes, resp |-> resp, snap |-> snap, outcome |-> outcome]

\* no request
NoContext == [pc |-> "idle", req |-> NoRequest, pre |-> EmptyState,
              task |-> IdleTasks, writes |-> NoWrites, resp |-> NoResponses,
              snap |-> EmptyState, outcome |-> "none"]

\* largest message id held by any thread
RECURSIVE MaxLen(_, _)
MaxLen(st, ts) ==
    IF ts = {} THEN 0
    ELSE LET t == CHOOSE x \in ts : TRUE
         IN Max(Len(st[t].messages), MaxLen(st, ts \ {t}))

----------------------------------------------------------------------------
(* app/services/concurrency.py: the gates and the groups that take them.   *)
(* A gate is an asyncio.Semaphore: value is the number of free permits and *)
(* waiters the tasks queued for one, first come first served.              *)

GLOBAL_LIMIT == 100
OPENAI_LIMIT == 20
SUPABASE_LIMIT == 10
OTHER_IO_LIMIT == 30
PER_USER_AUDIO_LIMIT == 2

\* user ids a caller passes to openai_limits; "" stands for no user id
UserIds == {"u1"}

GLOBAL_SEM == <<"GLOBAL_SEM">>
OPENAI_SEM == <<"OPENAI_SEM">>
SUPABASE_SEM == <<"SUPABASE_SEM">>
OTHER_IO_SEM == <<"OTHER_IO_SEM">>
\* variant of _per_user_audio with a slip: one semaphore serves every user
_per_user_audio_one_for_all(user_id) == <<"_per_user_audio", "u1">>

\* the defaultdict makes the semaphore of a user id at its first look-up and
\* hands out the same one from then on
_per_user_audio(user_id) == <<"_per_user_audio", user_id>>

ServiceGates == {OPENAI_SEM, SUPABASE_SEM, OTHER_IO_SEM}
Gates == {GLOBAL_SEM} \cup ServiceGates \cup {_per_user_audio(u) : u \in UserIds}

\* the limits the module creates its gates with
Knobs ==
    [g \in Gates |->
        IF g = GLOBAL_SEM THEN GLOBAL_LIMIT
        ELSE IF g = OPENAI_SEM THEN OPENAI_LIMIT
        ELSE IF g = SUPABASE_SEM THEN SUPABASE_LIMIT
        ELSE IF g = OTHER_IO_SEM THEN OTHER_IO_LIMIT
        ELSE PER_USER_AUDIO_LIMIT]

Semaphore(n) == [value |-> n, waiters |-> <<>>]

\* variant of locked with a slip: only the queue is looked at
locked_waiters_only(s) == s.waiters # <<>>

\* variant of locked with a slip: the last permit is never given
locked_off_by_one(s) == s.value <= 1 \/ s.waiters # <<>>

\* a gate admits a newcomer at once only with a free permit and nobody queued
locked(s) == s.value = 0 \/ s.waiters # <<>>

\* variant of openai_limits with a slip: the global gate is taken twice
openai_limits_global_twice(user_id) ==
    IF user_id # "" THEN <<GLOBAL_SEM, OPENAI_SEM, _per_user_audio(user_id), GLOBAL_SEM>>
    ELSE <<GLOBAL_SEM, OPENAI_SEM, GLOBAL_SEM>>

\* the gates a LimitGroup takes, in the order it takes them
openai_limits(user_id) ==
    IF user_id # "" THEN <<GLOBAL_SEM, OPENAI_SEM, _per_user_audio(user_id)>>
    ELSE <<GLOBAL_SEM, OPENAI_SEM>>

supabase_limits == <<GLOBAL_SEM, SUPABASE_SEM>>

other_io_limits == <<GLOBAL_SEM, OTHER_IO_SEM>>

\* variant of ExitNext with a slip: first entered, first left
ExitNext_fifo(held) == 1

\* AsyncExitStack unwinds last entered, first left: the position in the
\* stack of entered gates that is released next
ExitNext(held) == Len(held)

\* the tasks that go through a LimitGroup
Tasks == {"a", "b", "c"}

\* sems: the gates to take, in order (those of one group, or of a group and
\* of a second one entered inside it); held: the gates entered and not yet
\* left; released: the gates left, in the order they were left
LimitTask(sems) == [sems |-> sems, phase |-> "idle", held |-> <<>>,
                    released |-> <<>>, raised |-> FALSE]

----------------------------------------------------------------------------
(* app/services/audio: text-to-speech, transcription and upload, each      *)
(* wrapped in tenacity's retry, the first two behind STT_SEM.              *)

MAX_RETRIES == 5
CONCURRENCY_LIMIT == 20

Min(a, b) == IF a < b THEN a ELSE b

\* what one HTTP attempt can end with
AttemptResults == {"success", "bad_status", "network_error", "timeout"}

\* the exception an attempt raises, "" when it returns
Raised(result) ==
    IF result = "success" THEN ""
    ELSE IF result \in {"bad_status", "no_config"} THEN "RuntimeError"
    ELSE IF result = "network_error" THEN "ClientError"
    ELSE "TimeoutError"

\* variant of retry_if_exception_type with a slip: every exception is retried
retry_if_exception_type_any(exception) == exception # ""

\* retry=retry_if_exception_type((aiohttp.ClientError, asyncio.TimeoutError))
retry_if_exception_type(exception) == exception \in {"ClientError", "TimeoutError"}

\* variant of stop_after_attempt with a slip: one attempt too many
stop_after_attempt_late(attempt_number) == attempt_number > MAX_RETRIES

\* stop=stop_after_attempt(MAX_RETRIES)
stop_after_attempt(attempt_number) == attempt_number >= MAX_RETRIES

\* variant of wait_exponential with a slip: max is not applied
wait_exponential_uncapped(attempt_number) ==
    Max(Max(0, 1), 1 * 2 ^ (attempt_number - 1))

\* wait=wait_exponential(multiplier=1, min=1, max=6), in seconds
wait_exponential(attempt_number) ==
    Max(Max(0, 1), Min(1 * 2 ^ (attempt_number - 1), 6))

CallKinds == {"generate_speech", "transcribe_audio", "upload_audio_to_supabase"}

\* the calls that run behind STT_SEM
BehindSttSem == {"generate_speech", "transcribe_audio"}

NoCall == [kind |-> "", phase |-> "idle", attempt_number |-> 0, last |-> "",
           error |-> "", slept |-> 0]

ServicesIdle ==
    /\ limit = Knobs
    /\ sem = [g \in Gates |-> Semaphore(Knobs[g])]
    /\ lg = [t \in Tasks |-> LimitTask(<<>>)]
    /\ rc = [c \in 1..MaxCalls |-> NoCall]
    /\ stt = Semaphore(CONCURRENCY_LIMIT)

Init ==
    /\ store \in [Threads -> StartSessions]
    /\ pc = "idle"
    /\ req = NoRequest
    /\ pre = EmptyState
    /\ task = IdleTasks
    /\ writes = NoWrites
    /\ resp = NoResponses
    /\ snap = EmptyState
    /\ uid = 1 + MaxLen(store, Threads)
    /\ outcome = "none"
    /\ nreq = 0
    /\ susp = NoContext
    /\ ServicesIdle

cur == store[req.thread_id]

\* the request failed: the exception leaves the graph, the route answers 500
\* and the thread keeps the last checkpoint that was written
Fail ==
    /\ pc' = "done"
    /\ outcome' = "500"

\* variant of Commit with a slip: the checkpoint is written without regard to
\* the thread id
Commit_every_thread(update) ==
    /\ store' = [t \in DOMAIN store |-> ApplyUpdate(store[t], update, uid)]
    /\ uid' = uid + NewIds(update)

\* a super-step ended: its update is applied and the checkpoint written
Commit(update) ==
    /\ store' = [store EXCEPT ![req.thread_id] = ApplyUpdate(@, update, uid)]
    /\ uid' = uid + NewIds(update)

----------------------------------------------------------------------------
(* Actions *)

\* chat_route.py: chat_invoke up to the point where the graph has taken the
\* input: 422 when the first-turn check fails, else the input is merged into
\* the thread's checkpoint through the channel reducers
chat_invoke(t, m, p) ==
    LET body == [thread_id |-> t, message |-> m, params |-> p] IN
    /\ pc = "idle"
    /\ nreq < MaxRequests
    /\ nreq' = nreq + 1
    /\ req' = body
    /\ pre' = store[t]
    /\ task' = IdleTasks
    /\ writes' = NoWrites
    /\ resp' = NoResponses
    /\ snap' = EmptyState
    /\ IF _validate_init_requirements(body) # {}
       THEN /\ pc' = "done"
            /\ outcome' = "422"
            /\ UNCHANGED <<store, uid>>
       ELSE /\ pc' = "initialize_state"
            /\ outcome' = "none"
            /\ store' = [store EXCEPT ![t] = ApplyUpdate(@, _build_state(body), uid)]
            /\ uid' = uid + NewIds(_build_state(body))
    /\ UNCHANGED aux

\* graph.py: the initialize_state node and the conditional edge after it
initialize_state_step ==
    /\ pc = "initialize_state"
    /\ Commit(initialize_state(cur))
    /\ pc' = IF route_after_init(ApplyUpdate(cur, initialize_state(cur), uid))
                  = "continue_conversation"
             THEN "fanout_after_init" ELSE "generate_initial_question"
    /\ UNCHANGED <<req, pre, task, writes, resp, snap, outcome, nreq>>
    /\ UNCHANGED aux

\* nodes.py: generate_initial_question, the LLM call answering
generate_initial_question_returns ==
    /\ pc = "generate_initial_question"
    /\ ~human_initial_prompt_raises(cur.prompt_helper[1])
    /\ \E response \in TurnResults :
          /\ Commit(generate_initial_question(cur, response))
          /\ writes' = [writes EXCEPT !.generate_initial_question =
                                         generate_initial_question(cur, response)]
          /\ resp' = [resp EXCEPT !.generate_initial_question = Some(response)]
    /\ task' = [task EXCEPT !.generate_initial_question = "done"]
    /\ pc' = "done"
    /\ outcome' = "200"
    /\ UNCHANGED <<req, pre, snap, nreq>>
    /\ UNCHANGED aux

generate_initial_question_raises ==
    /\ pc = "generate_initial_question"
    /\ ~human_initial_prompt_raises(cur.prompt_helper[1])
    /\ task' = [task EXCEPT !.generate_initial_question = "failed"]
    /\ Fail
    /\ UNCHANGED <<store, req, pre, writes, resp, snap, uid, nreq>>
    /\ UNCHANGED aux

\* nodes.py: generate_initial_question, the opening prompt cannot be built:
\* the language being learned is unknown to the language metadata
generate_initial_question_unsupported ==
    /\ pc = "generate_initial_question"
    /\ human_initial_prompt_raises(cur.prompt_helper[1])
    /\ task' = [task EXCEPT !.generate_initial_question = "unsupported"]
    /\ Fail
    /\ UNCHANGED <<store, req, pre, writes, resp, snap, uid, nreq>>
    /\ UNCHANGED aux

\* graph.py: fanout_after_init returns {} and both branches are scheduled
fanout_after_init ==
    /\ pc = "fanout_after_init"
    /\ pc' = "parallel"
    /\ task' = [task EXCEPT !.call_model = "running", !.correct_response = "running"]
    /\ snap' = cur
    /\ UNCHANGED <<store, req, pre, writes, resp, uid, outcome, nreq>>
    /\ UNCHANGED aux

\* nodes.py: call_model, run on the state of the start of the super-step
call_model_returns ==
    /\ pc = "parallel"
    /\ task.call_model = "running"
    /\ \E response \in TurnResults :
          /\ writes' = [writes EXCEPT !.call_model = call_model(cur, response)]
          /\ resp' = [resp EXCEPT !.call_model = Some(response)]
    /\ task' = [task EXCEPT !.call_model = "done"]
    /\ UNCHANGED <<store, pc, req, pre, snap, uid, outcome, nreq>>
    /\ UNCHANGED aux

\* a node raising ends the super-step: the sibling still running is cancelled
Cancelled(t) == [n \in DOMAIN t |-> IF t[n] = "running" THEN "cancelled" ELSE t[n]]

call_model_raises ==
    /\ pc = "parallel"
    /\ task.call_model = "running"
    /\ task' = Cancelled([task EXCEPT !.call_model = "failed"])
    /\ Fail
    /\ UNCHANGED <<store, req, pre, writes, resp, snap, uid, nreq>>
    /\ UNCHANGED aux

\* variant of correct_response_returns with a slip: the write is applied as
\* soon as the node returns, the sibling still running reads it
correct_response_returns_at_once ==
    /\ pc = "parallel"
    /\ task.correct_response = "running"
    /\ \E response \in CorrectionResults :
          /\ Commit(correct_response(cur, response))
          /\ writes' = [writes EXCEPT !.correct_response = correct_response(cur, response)]
          /\ resp' = [resp EXCEPT !.correct_response = Some(response)]
    /\ task' = [task EXCEPT !.correct_response = "done"]
    /\ UNCHANGED <<pc, req, pre, snap, outcome, nreq>>
    /\ UNCHANGED aux

\* nodes.py: correct_response, run on the same state
correct_response_returns ==
    /\ pc = "parallel"
    /\ task.correct_response = "running"
    /\ \E response \in CorrectionResults :
          /\ writes' = [writes EXCEPT !.correct_response = correct_response(cur, response)]
          /\ resp' = [resp EXCEPT !.correct_response = Some(response)]
    /\ task' = [task EXCEPT !.correct_response = "done"]
    /\ UNCHANGED <<store, pc, req, pre, snap, uid, outcome, nreq>>
    /\ UNCHANGED aux

correct_response_raises ==
    /\ pc = "parallel"
    /\ task.correct_response = "running"
    /\ task' = Cancelled([task EXCEPT !.correct_response = "failed"])
    /\ Fail
    /\ UNCHANGED <<store, req, pre, writes, resp, snap, uid, nreq>>
    /\ UNCHANGED aux

\* variant of superstep_end with a slip: the fan-in does not wait for
\* correct_response
superstep_end_early ==
    /\ pc = "parallel"
    /\ task.call_model = "done"
    /\ store' = [store EXCEPT ![req.thread_id] =
                     ApplyWrites(@, <<writes.call_model>>, uid)]
    /\ uid' = uid + SumNewIds(<<writes.call_model>>)
    /\ pc' = "fanin_after_processing"
    /\ UNCHANGED <<req, pre, task, writes, resp, snap, outcome, nreq>>
    /\ UNCHANGED aux

\* graph.py: both branches have returned; their writes are applied together
\* and fanin_after_processing becomes the next node
superstep_end ==
    /\ pc = "parallel"
    /\ task.call_model = "done"
    /\ task.correct_response = "done"
    /\ LET updates == <<writes.call_model, writes.correct_response>> IN
          /\ store' = [store EXCEPT ![req.thread_id] = ApplyWrites(@, updates, uid)]
          /\ uid' = uid + SumNewIds(updates)
    /\ pc' = "fanin_after_processing"
    /\ UNCHANGED <<req, pre, task, writes, resp, snap, outcome, nreq>>
    /\ UNCHANGED aux

\* graph.py: fanin_after_processing returns {} and should_summarize picks
\* the next node
fanin_after_processing ==
    /\ pc = "fanin_after_processing"
    /\ IF should_summarize(cur)
       THEN /\ pc' = "summarize_conversation"
            /\ outcome' = outcome
       ELSE /\ pc' = "done"
            /\ outcome' = "200"
    /\ UNCHANGED <<store, req, pre, task, writes, resp, snap, uid, nreq>>
    /\ UNCHANGED aux

\* nodes.py: summarize_conversation, the LLM call answering
summarize_conversation_returns ==
    /\ pc = "summarize_conversation"
    /\ \E response \in SummaryResults :
          /\ Commit(summarize_conversation(cur, response))
          /\ writes' = [writes EXCEPT !.summarize_conversation =
                                         summarize_conversation(cur, response)]
          /\ resp' = [resp EXCEPT !.summarize_conversation = Some(response)]
    /\ task' = [task EXCEPT !.summarize_conversation = "done"]
    /\ pc' = "done"
    /\ outcome' = "200"
    /\ UNCHANGED <<req, pre, snap, nreq>>
    /\ UNCHANGED aux

summarize_conversation_raises ==
    /\ pc = "summarize_conversation"
    /\ task' = [task EXCEPT !.summarize_conversation = "failed"]
    /\ Fail
    /\ UNCHANGED <<store, req, pre, writes, resp, snap, uid, nreq>>
    /\ UNCHANGED aux

\* chat_route.py: the response (or the HTTPException) has gone to the caller
request_complete ==
    /\ pc = "done"
    /\ pc' = "idle"
    /\ req' = NoRequest
    /\ pre' = EmptyState
    /\ task' = IdleTasks
    /\ writes' = NoWrites
    /\ resp' = NoResponses
    /\ snap' = EmptyState
    /\ outcome' = "none"
    /\ UNCHANGED <<store, uid, nreq>>
    /\ UNCHANGED aux

Next ==
    \/ \E t \in Threads, m \in MessageChoices, p \in ParamChoices : chat_invoke(t, m, p)
    \/ initialize_state_step
    \/ generate_initial_question_returns
    \/ generate_initial_question_raises
    \/ generate_initial_question_unsupported
    \/ fanout_after_init
    \/ call_model_returns
    \/ call_model_raises
    \/ correct_response_returns
    \/ correct_response_raises
    \/ superstep_end
    \/ fanin_after_processing
    \/ summarize_conversation_returns
    \/ summarize_conversation_raises
    \/ request_complete

Spec == Init /\ [][Next]_vars

----------------------------------------------------------------------------
(* summarize_conversation on its own: the node function applied to a       *)
(* session of any length, as a caller other than the graph's conditional   *)
(* edge (or other settings in config.py) would have it run.                *)

CompactSessions ==
    {[Grown(n) EXCEPT !["summary"] = summary] :
         n \in 1..MaxCompactTurns, summary \in {"", "sumA"}}

InitCompact ==
    /\ store \in [Threads -> CompactSessions]
    /\ pc = "summarize_conversation"
    /\ req \in {[thread_id |-> t, message |-> Some("hola"),
                 params |-> [f \in InitFields |-> None]] : t \in Threads}
    /\ pre = store[req.thread_id]
    /\ task = [IdleTasks EXCEPT !.call_model = "done", !.correct_response = "done"]
    /\ writes = NoWrites
    /\ resp = NoResponses
    /\ snap = store[req.thread_id]
    /\ uid = 1 + MaxLen(store, Threads)
    /\ outcome = "none"
    /\ nreq = 1
    /\ susp = NoContext
    /\ ServicesIdle

NextCompact ==
    \/ summarize_conversation_returns
    \/ summarize_conversation_raises
    \/ request_complete

SpecCompact == InitCompact /\ [][NextCompact]_vars

----------------------------------------------------------------------------
(* Requests of several threads: the handlers are coroutines of one event   *)
(* loop, so while one request waits (for the LLM, for the checkpointer)    *)
(* another one runs. Two requests are followed, on different threads; the  *)
(* one not running is kept in susp. A request without thread_id gets the   *)
(* uuid4 of _new_thread_id, an id no thread has.                           *)

\* the thread ids the clients hold from the start
ClientThreads == {"A", "B"}

\* the ids uuid4 comes up with
GeneratedIds == {"uuid-1"}

\* "thread_id = body.thread_id or _new_thread_id()": an id that no thread
\* has and no request is using
_new_thread_id ==
    {t \in GeneratedIds : store[t] = EmptyState /\ susp.req.thread_id # t}

\* the ids a client can send: its own and those the server has given out
KnownThreads == ClientThreads \cup {t \in GeneratedIds : store[t] # EmptyState}

ThreadSessions == {EmptyState, Grown(MESSAGES_BEFORE_SUMMARY)}

ThreadParamChoices ==
    { Params(Some("B2"), Some("Spanish (Spain)"), Some("French"), Some("female"), Some("male")) }

InitThreads ==
    /\ store \in [ClientThreads \cup GeneratedIds -> ThreadSessions]
    /\ store["A"] # EmptyState
    /\ store["B"] = EmptyState
    /\ \A t \in GeneratedIds : store[t] = EmptyState
    /\ pc = "idle"
    /\ req = NoRequest
    /\ pre = EmptyState
    /\ task = IdleTasks
    /\ writes = NoWrites
    /\ resp = NoResponses
    /\ snap = EmptyState
    /\ uid = 1 + MaxLen(store, ClientThreads)
    /\ outcome = "none"
    /\ nreq = 0
    /\ susp = NoContext
    /\ ServicesIdle

\* where a request waits for the answer of the LLM
AwaitsLLM == {"generate_initial_question", "parallel", "summarize_conversation"}

\* the event loop leaves the request in hand where it waits for the LLM (or
\* has nothing to do) and goes on with the other one, or is free to take a
\* new one
switch ==
    /\ Context # susp
    /\ pc \in AwaitsLLM \cup {"idle", "done"}
    /\ susp' = Context
    /\ pc' = susp.pc
    /\ req' = susp.req
    /\ pre' = susp.pre
    /\ task' = susp.task
    /\ writes' = susp.writes
    /\ resp' = susp.resp
    /\ snap' = susp.snap
    /\ outcome' = susp.outcome
    /\ UNCHANGED <<store, uid, nreq, limit, sem, lg, rc, stt>>

NextThreads ==
    \/ \E t \in KnownThreads, m \in MessageChoices, p \in ThreadParamChoices :
           /\ nreq < MaxThreadRequests
           /\ t # susp.req.thread_id
           /\ chat_invoke(t, m, p)
    \/ \E t \in _new_thread_id, m \in MessageChoices, p \in ThreadParamChoices :
           /\ nreq < MaxThreadRequests
           /\ chat_invoke(t, m, p)
    \/ switch
    \/ initialize_state_step
    \/ generate_initial_question_returns
    \/ generate_initial_question_raises
    \/ fanout_after_init
    \/ call_model_returns
    \/ call_model_raises
    \/ correct_response_returns
    \/ correct_response_raises
    \/ superstep_end
    \/ fanin_after_processing
    \/ summarize_conversation_returns
    \/ summarize_conversation_raises
    \/ request_complete

SpecThreads == InitThreads /\ [][NextThreads]_vars

----------------------------------------------------------------------------
(* The service layer on its own: the chat engine at rest.                  *)

chatvars == <<store, pc, req, pre, task, writes, resp, snap, uid, outcome, nreq,
              susp>>

ChatIdle ==
    /\ store = [t \in Threads |-> EmptyState]
    /\ pc = "idle"
    /\ req = NoRequest
    /\ pre = EmptyState
    /\ task = IdleTasks
    /\ writes = NoWrites
    /\ resp = NoResponses
    /\ snap = EmptyState
    /\ uid = 1
    /\ outcome = "none"
    /\ nreq = 0
    /\ susp = NoContext

----------------------------------------------------------------------------
(* Retried calls: generate_speech and transcribe_audio run _tts_generate   *)
(* and _whisper inside "async with STT_SEM"; upload_audio_to_supabase is   *)
(* decorated itself and takes no semaphore.                                *)

\* what an attempt of a call of this kind can end with: the upload also
\* raises RuntimeError when the Supabase settings are missing
ResultsOf(kind) ==
    IF kind = "upload_audio_to_supabase" THEN AttemptResults \cup {"no_config"}
    ELSE AttemptResults

\* the call leaves: its "async with STT_SEM" releases the permit, which goes
\* to the first waiter if there is one
Leave(c, phase, result, error) ==
    LET done == [rc[c] EXCEPT !.phase = phase, !.last = result, !.error = error]
    IN IF rc[c].kind \in BehindSttSem
       THEN IF stt.waiters # <<>>
            THEN /\ stt' = [stt EXCEPT !.waiters = Tail(@)]
                 /\ rc' = [rc EXCEPT ![c] = done,
                                     ![Head(stt.waiters)] =
                                         [@ EXCEPT !.phase = "attempt",
                                                   !.attempt_number = 1]]
            ELSE /\ stt' = [stt EXCEPT !.value = @ + 1]
                 /\ rc' = [rc EXCEPT ![c] = done]
       ELSE /\ rc' = [rc EXCEPT ![c] = done]
            /\ UNCHANGED stt

start_call(c, kind) ==
    /\ rc[c].phase = "idle"
    /\ IF kind \in BehindSttSem
       THEN IF locked(stt)
            THEN /\ stt' = [stt EXCEPT !.waiters = Append(@, c)]
                 /\ rc' = [rc EXCEPT ![c] = [@ EXCEPT !.kind = kind,
                                                      !.phase = "waiting"]]
            ELSE /\ stt' = [stt EXCEPT !.value = @ - 1]
                 /\ rc' = [rc EXCEPT ![c] = [@ EXCEPT !.kind = kind,
                                                      !.phase = "attempt",
                                                      !.attempt_number = 1]]
       ELSE /\ rc' = [rc EXCEPT ![c] = [@ EXCEPT !.kind = kind,
                                                 !.phase = "attempt",
                                                 !.attempt_number = 1]]
            /\ UNCHANGED stt
    /\ UNCHANGED <<chatvars, limit, sem, lg>>

\* variant of attempt_ends with a slip: the slot is taken per attempt, a call
\* that goes to sleep gives it back
attempt_ends_frees_slot(c, result) ==
    LET exception == Raised(result) IN
    /\ rc[c].phase = "attempt"
    /\ result \in ResultsOf(rc[c].kind)
    /\ IF exception = "" THEN Leave(c, "returned", result, "")
       ELSE IF ~retry_if_exception_type(exception)
            THEN Leave(c, "raised", result, exception)
       ELSE IF stop_after_attempt(rc[c].attempt_number)
            THEN Leave(c, "raised", result, "RetryError")
       ELSE /\ rc' = [rc EXCEPT ![c] =
                         [@ EXCEPT !.phase = "sleeping", !.last = result,
                                   !.slept = wait_exponential(rc[c].attempt_number)]]
            /\ stt' = IF rc[c].kind \in BehindSttSem
                      THEN [stt EXCEPT !.value = @ + 1] ELSE stt
    /\ UNCHANGED <<chatvars, limit, sem, lg>>

\* one attempt ends: tenacity returns the value, lets an exception it does
\* not retry through, raises RetryError at the last attempt, or sleeps
attempt_ends(c, result) ==
    LET exception == Raised(result) IN
    /\ rc[c].phase = "attempt"
    /\ result \in ResultsOf(rc[c].kind)
    /\ IF exception = "" THEN Leave(c, "returned", result, "")
       ELSE IF ~retry_if_exception_type(exception)
            THEN Leave(c, "raised", result, exception)
       ELSE IF stop_after_attempt(rc[c].attempt_number)
            THEN Leave(c, "raised", result, "RetryError")
       ELSE /\ rc' = [rc EXCEPT ![c] =
                         [@ EXCEPT !.phase = "sleeping", !.last = result,
                                   !.slept = wait_exponential(rc[c].attempt_number)]]
            /\ UNCHANGED stt
    /\ UNCHANGED <<chatvars, limit, sem, lg>>

\* the sleep is over: the next attempt starts
next_attempt(c) ==
    /\ rc[c].phase = "sleeping"
    /\ rc' = [rc EXCEPT ![c] = [@ EXCEPT !.phase = "attempt",
                                         !.attempt_number = @ + 1]]
    /\ UNCHANGED <<chatvars, limit, sem, lg, stt>>

InitRetry == ChatIdle /\ ServicesIdle

NextRetry ==
    \/ \E c \in 1..MaxCalls, kind \in CallKinds : start_call(c, kind)
    \/ \E c \in 1..MaxCalls, result \in AttemptResults \cup {"no_config"} :
           attempt_ends(c, result)
    \/ \E c \in 1..MaxCalls : next_attempt(c)

SpecRetry == InitRetry /\ [][NextRetry]_vars

----------------------------------------------------------------------------
(* Tasks going through LimitGroup: __aenter__ enters the gates one after   *)
(* the other, each entry waiting for a permit; __aexit__ unwinds the exit  *)
(* stack. A released permit goes to the first waiter of the gate.          *)

RemoveAt(s, i) == SubSeq(s, 1, i - 1) \o SubSeq(s, i + 1, Len(s))

\* task t has got gate g: it goes on to its next gate, or into its body
Entered(l, g) ==
    [l EXCEPT !.held = Append(@, g),
              !.phase = IF Len(l.held) + 1 = Len(l.sems) THEN "inside"
                        ELSE "entering"]

\* _SemCtx.__aenter__ on the next gate of the group
acquire(t) ==
    LET g == lg[t].sems[Len(lg[t].held) + 1] IN
    /\ lg[t].phase \in {"idle", "entering"}
    /\ Len(lg[t].held) < Len(lg[t].sems)
    /\ IF locked(sem[g])
       THEN /\ sem' = [sem EXCEPT ![g].waiters = Append(@, t)]
            /\ lg' = [lg EXCEPT ![t].phase = "waiting"]
       ELSE /\ sem' = [sem EXCEPT ![g].value = @ - 1]
            /\ lg' = [lg EXCEPT ![t] = Entered(@, g)]
    /\ UNCHANGED <<chatvars, limit, rc, stt>>

\* the body of the "async with" ends
guarded_call_returns(t) ==
    /\ lg[t].phase = "inside"
    /\ lg' = [lg EXCEPT ![t].phase = "leaving"]
    /\ UNCHANGED <<chatvars, limit, sem, rc, stt>>

guarded_call_raises(t) ==
    /\ lg[t].phase = "inside"
    /\ lg' = [lg EXCEPT ![t].phase = "leaving", ![t].raised = TRUE]
    /\ UNCHANGED <<chatvars, limit, sem, rc, stt>>

\* _SemCtx.__aexit__ of the gate the exit stack unwinds next
release(t) ==
    LET i == ExitNext(lg[t].held)
        g == lg[t].held[i]
        left == [lg[t] EXCEPT !.held = RemoveAt(@, i),
                              !.released = Append(@, g),
                              !.phase = IF Len(lg[t].held) = 1 THEN "done"
                                        ELSE "leaving"]
    IN
    /\ lg[t].phase = "leaving"
    /\ IF sem[g].waiters # <<>>
       THEN /\ sem' = [sem EXCEPT ![g].waiters = Tail(@)]
            /\ lg' = [lg EXCEPT ![t] = left,
                                ![Head(sem[g].waiters)] = Entered(@, g)]
       ELSE /\ sem' = [sem EXCEPT ![g].value = @ + 1]
            /\ lg' = [lg EXCEPT ![t] = left]
    /\ UNCHANGED <<chatvars, limit, rc, stt>>

\* the groups the module builds
Groups == {openai_limits(u) : u \in UserIds \cup {""}}
              \cup {supabase_limits, other_io_limits}

\* the knobs are there to be tuned: besides the module's values, limits
\* small enough for the tasks to compete for every gate
GateLimits(global, service) ==
    [g \in Gates |->
        IF g = GLOBAL_SEM THEN global
        ELSE IF g \in ServiceGates THEN service
        ELSE PER_USER_AUDIO_LIMIT]

LimitChoices ==
    {Knobs} \cup {GateLimits(g, s) : g \in 1..MaxGateLimit, s \in 1..MaxGateLimit}

\* limits for which liveness is explored
TightLimits == {1, 2}

TightLimitChoices ==
    {Knobs} \cup {GateLimits(g, s) : g \in TightLimits, s \in TightLimits}

InitGates(choices) ==
    /\ ChatIdle
    /\ limit \in choices
    /\ sem = [g \in Gates |-> Semaphore(limit[g])]
    /\ rc = [c \in 1..MaxCalls |-> NoCall]
    /\ stt = Semaphore(CONCURRENCY_LIMIT)

\* every task enters one group
InitLimiter ==
    /\ InitGates(LimitChoices)
    /\ lg \in [Tasks -> {LimitTask(sems) : sems \in Groups}]

NextLimiter ==
    \/ \E t \in Tasks : acquire(t)
    \/ \E t \in Tasks : guarded_call_returns(t)
    \/ \E t \in Tasks : guarded_call_raises(t)
    \/ \E t \in Tasks : release(t)

SpecLimiter == InitLimiter /\ [][NextLimiter]_vars

\* the event loop never idles while a task is ready to run: some task that can
\* take a step takes one, and every guarded call ends
FairLimiter == WF_vars(NextLimiter)

InitLimiterFair ==
    /\ InitGates(TightLimitChoices)
    /\ lg \in [Tasks -> {LimitTask(sems) : sems \in Groups}]

SpecLimiterFair == InitLimiterFair /\ [][NextLimiter]_vars /\ FairLimiter

\* the tasks that enter a second group inside the body of their first one;
\* the remaining task stays out
NestingTasks == {"a", "b"}

InitNested ==
    /\ InitGates(LimitChoices)
    /\ lg \in [Tasks -> {LimitTask(first \o second) :
                              first \in Groups, second \in Groups}
                          \cup {LimitTask(<<>>)}]
    /\ \A t \in Tasks : lg[t].sems # <<>> <=> t \in NestingTasks

SpecNested == InitNested /\ [][NextLimiter]_vars

----------------------------------------------------------------------------
(* The audio services under load: when the calls followed start, all       *)
(* slots of STT_SEM but one are held by speech calls already in their      *)
(* first attempt, which stay there while the calls followed run.           *)

CallsInProgress == CONCURRENCY_LIMIT - 1

InitBusy ==
    /\ ChatIdle
    /\ limit = Knobs
    /\ sem = [g \in Gates |-> Semaphore(Knobs[g])]
    /\ lg = [t \in Tasks |-> LimitTask(<<>>)]
    /\ rc = [c \in 1..(MaxCalls + CallsInProgress) |->
                IF c <= MaxCalls THEN NoCall
                ELSE [NoCall EXCEPT !.kind = "generate_speech",
                                    !.phase = "attempt",
                                    !.attempt_number = 1]]
    /\ stt = [value |-> CONCURRENCY_LIMIT - CallsInProgress, waiters |-> <<>>]

SpecBusy == InitBusy /\ [][NextRetry]_vars

----------------------------------------------------------------------------
(* Cancellation: a task can be cancelled wherever it is suspended, and in  *)
(* LimitGroup.__aenter__ that is the wait for a gate. The CancelledError     *)
(* leaves __aenter__, so the "async with" never calls __aexit__ and the     *)
(* exit stack, which holds the gates entered so far, is never unwound.      *)

cancel(t) ==
    LET g == lg[t].sems[Len(lg[t].held) + 1] IN
    /\ lg[t].phase = "waiting"
    /\ sem' = [sem EXCEPT ![g].waiters = SelectSeq(@, LAMBDA x : x # t)]
    /\ lg' = [lg EXCEPT ![t].phase = "cancelled", ![t].raised = TRUE]
    /\ UNCHANGED <<chatvars, limit, rc, stt>>

NextCancel ==
    \/ NextLimiter
    \/ \E t \in Tasks : cancel(t)

SpecCancel == InitLimiterFair /\ [][NextCancel]_vars

----------------------------------------------------------------------------
(* The audio pipelines of two end-users and of a caller without user id,   *)
(* each task going through openai_limits(user_id) under the module's knobs *)

AudioUsers == {"u1", "u2"}

AudioGates == Gates \cup {_per_user_audio(u) : u \in AudioUsers}

\* a task that enters openai_limits(user_id); "" stands for no user id
AudioTask(user_id) == [user_id |-> user_id] @@ LimitTask(openai_limits(user_id))

InitPerUser ==
    /\ ChatIdle
    /\ limit = [g \in AudioGates |->
                   IF g \in Gates THEN Knobs[g] ELSE PER_USER_AUDIO_LIMIT]
    /\ sem = [g \in AudioGates |-> Semaphore(limit[g])]
    /\ rc = [c \in 1..MaxCalls |-> NoCall]
    /\ stt = Semaphore(CONCURRENCY_LIMIT)
    /\ lg \in [Tasks -> {AudioTask(u) : u \in AudioUsers \cup {""}}]

SpecPerUser == InitPerUser /\ [][NextLimiter]_vars

----------------------------------------------------------------------------
(* Properties *)

\* the request in hand reached the fan-out (an ongoing turn)
Ongoing == pc # "idle" /\ task.call_model # "idle"

FanOutWrites == <<writes.call_model, writes.correct_response>>

\* C1: No partial commit. When Correct fails for good while Respond has
\* succeeded, the session persisted for the thread after the request is
\* identical to the one persisted before it.
C1_NoPartialCommit ==
    (pc = "done" /\ task.correct_response = "failed" /\ task.call_model = "done")
        => cur = pre

\* C2: Merge non-erasure. For every initialization parameter f, the merged
\* session holds the request's f when the request carries one and the stored f
\* when the request omits it, after any sequence of requests.
C2_MergeNonErasure ==
    (pc # "idle" /\ outcome # "422")
        => \A f \in InitFields :
              cur[f] = IF req.params[f] = None THEN pre[f] ELSE req.params[f]

C2_Witness ==
    /\ pc = "done" /\ outcome = "200"
    /\ \E f \in InitFields : req.params[f] = None /\ pre[f] # None /\ cur[f] = pre[f]
    /\ \E g \in InitFields :
          req.params[g] # None /\ pre[g] # None /\ pre[g] # req.params[g]

\* C3: FanIn merge. After the fan-in the turn sequence is the pre-FanOut
\* sequence plus exactly one assistant turn, and the correction map is the
\* earlier map with the entry of the corrected turn added or overwritten, every
\* other record still present and unchanged.
C3_FanInMerge ==
    pc = "fanin_after_processing" =>
        LET n == Len(snap.messages)
            new == writes.correct_response.corrections
        IN /\ Len(cur.messages) = n + 1
           /\ SubSeq(cur.messages, 1, n) = snap.messages
           /\ cur.messages[n + 1].type = "ai"
           /\ \A id \in DOMAIN new :
                 id \in DOMAIN cur.corrections /\ cur.corrections[id] = new[id]
           /\ \A id \in DOMAIN snap.corrections \ DOMAIN new :
                 id \in DOMAIN cur.corrections
                 /\ cur.corrections[id] = snap.corrections[id]

\* C4: Commutativity of FanOut results. Applying the Respond result and the
\* Correct result to the session in either order gives the same session, and
\* the session after the fan-in is that one.
C4_FanOutCommutes ==
    /\ (pc = "parallel" /\ task.call_model = "done" /\ task.correct_response = "done")
          => ApplyWrites(cur, <<writes.call_model, writes.correct_response>>, uid)
               = ApplyWrites(cur, <<writes.correct_response, writes.call_model>>, uid)
    /\ pc = "fanin_after_processing"
          => cur = ApplyWrites(snap, <<writes.correct_response, writes.call_model>>,
                               uid - SumNewIds(FanOutWrites))

C4_Witness ==
    /\ pc = "fanin_after_processing"
    /\ Len(cur.messages) = Len(snap.messages) + 1
    /\ DOMAIN cur.corrections # DOMAIN snap.corrections

\* C5: Compaction conservation above the threshold. After Compact the active
\* turn count equals KEEP and the rolling summary is non-empty.
C5_CompactConservation ==
    (pc = "done" /\ task.summarize_conversation = "done")
        => Len(cur.messages) = MESSAGES_TO_KEEP /\ cur.summary # ""

\* C6: Compaction gating. When the turn count after the fan-in is at most the
\* threshold, Compact does not run, Summarize is not called, no turn is removed
\* and the summary at the end of the request is the one at its start.
C6_CompactionGating ==
    (/\ pc \in {"summarize_conversation", "done"}
     /\ task.call_model = "done" /\ task.correct_response = "done"
     /\ Len(snap.messages) + 1 <= MESSAGES_BEFORE_SUMMARY)
        => /\ pc = "done" /\ outcome = "200"
           /\ task.summarize_conversation = "idle"
           /\ resp.summarize_conversation = None
           /\ cur.summary = pre.summary
           /\ Len(cur.messages) = Len(snap.messages) + 1
           /\ SubSeq(cur.messages, 1, Len(snap.messages)) = snap.messages

C6_Witness ==
    /\ pc = "done" /\ outcome = "200"
    /\ task.call_model = "done" /\ task.summarize_conversation = "idle"
    /\ Len(cur.messages) = MESSAGES_BEFORE_SUMMARY

\* a request with a user message on a thread holding 31 turns has been answered
Scenario31 ==
    /\ pc = "done" /\ outcome = "200"
    /\ Len(pre.messages) = MESSAGES_BEFORE_SUMMARY + 1
    /\ req.message # None

C8_Opening ==
    (/\ pc = "done" /\ outcome = "200"
     /\ pre = EmptyState
     /\ req.message = None
     /\ \A f \in RequiredFields : ~Falsy(req.params[f]))
        => /\ Len(cur.messages) = 1
           /\ cur.messages[1].type = "ai"

C8_Witness ==
    /\ pc = "done" /\ outcome = "200"
    /\ pre = EmptyState
    /\ req.message = None
    /\ \A f \in RequiredFields : ~Falsy(req.params[f])
    /\ Len(cur.messages) = 1

FirstContact == pc # "idle" /\ pre.prompt_helper = None

\* C9 as stated: on first contact every request lacking level, target or
\* native language fails as MissingInitParams and changes nothing persisted,
\* with or without a user message.  (Requests that fail because an LLM call
\* raised are left aside, so that only the missing parameters can be the cause.)
C9_MissingInit ==
    (/\ pc = "done" /\ FirstContact
     /\ \E f \in RequiredFields : req.params[f] = None
     /\ \A n \in LLMNodes : task[n] # "failed")
        => outcome = "422" /\ cur = pre

\* C9 as amended: on first contact a request without a user message that lacks
\* (null or empty) one of the three is rejected with 422 before the graph runs
\* and changes nothing persisted; a request with a user message is never
\* rejected for that: Init builds the configuration with B2 / Spanish (Spain) /
\* English (US) in place of the absent ones.
C9_MissingInitAmended ==
    /\ (FirstContact /\ req.message = None
          /\ \E f \in RequiredFields : Falsy(req.params[f]))
          => pc = "done" /\ outcome = "422" /\ cur = pre
    /\ (FirstContact /\ req.message # None)
          => /\ outcome # "422"
             /\ pc # "initialize_state" =>
                   cur.prompt_helper =
                       Some(ChatPromptHelper(Get(req.params.student_level, "B2"),
                                             Get(req.params.foreign_language, "Spanish (Spain)"),
                                             Get(req.params.native_language, "English (US)")))

C9_Witness ==
    /\ pc = "done" /\ outcome = "422" /\ FirstContact
    /\ req.message = None
    /\ req.params.native_language = None
    /\ cur = pre

\* C10: Idempotence of Init. On an initialized session, a request carrying the
\* same parameters or none leaves every initialization parameter and the
\* prompt_helper as they were, and running Init again changes nothing.
C10_InitIdempotent ==
    (/\ pc # "idle" /\ outcome # "422"
     /\ pre.prompt_helper # None
     /\ \A f \in InitFields : req.params[f] \in {None, pre[f]})
        => /\ \A f \in InitFields : cur[f] = pre[f]
           /\ cur.prompt_helper = pre.prompt_helper
           /\ ApplyUpdate(cur, initialize_state(cur), uid) = cur

C10_Witness ==
    /\ pc = "done" /\ outcome = "200"
    /\ pre.prompt_helper # None
    /\ pre.student_level # None
    /\ \A f \in InitFields : req.params[f] = None
    /\ cur.prompt_helper = pre.prompt_helper
    /\ cur.prompt_helper[1].student_level # cur.student_level[1]

----------------------------------------------------------------------------
(* Properties of the retried calls *)

\* the attempt results the retry policy is meant for
TransientResults == {"network_error", "timeout"}

\* C13: a retried call (speech synthesis, transcription, upload) is attempted
\* at most 5 times, and an attempt after the first is running only after the
\* attempt before it ended with a network-level error or a timeout.
C13_RetryCeiling ==
    \A c \in 1..MaxCalls :
        /\ rc[c].attempt_number <= 5
        /\ (rc[c].phase \in {"sleeping", "attempt"} /\ rc[c].attempt_number > 1)
               => rc[c].last \in TransientResults
        /\ rc[c].phase = "sleeping" => rc[c].last \in TransientResults

\* a call gave up at its fifth attempt, after five transient failures
C13_Witness ==
    \E c \in 1..MaxCalls :
        /\ rc[c].phase = "raised"
        /\ rc[c].error = "RetryError"
        /\ rc[c].attempt_number = 5
        /\ rc[c].last \in TransientResults

\* C14: once an attempt has failed with a failure outside the transient class
\* the call is over: it has raised that very failure, it neither sleeps nor
\* attempts again.
C14_NonTransientNotRetried ==
    \A c \in 1..MaxCalls :
        (rc[c].last # "" /\ Raised(rc[c].last) # ""
             /\ rc[c].last \notin TransientResults)
            => /\ rc[c].phase = "raised"
               /\ rc[c].error = Raised(rc[c].last)

\* a call whose third attempt met a failure outside the transient class
C14_Witness ==
    \E c \in 1..MaxCalls :
        /\ rc[c].phase = "raised"
        /\ rc[c].last \in {"bad_status", "no_config"}
        /\ rc[c].error = "RuntimeError"
        /\ rc[c].attempt_number = 3

\* C15: a call whose attempt ended with a non-2xx response is retried up to
\* the ceiling, as for network errors and timeouts: it gives up on such a
\* response only at its fifth attempt.
C15_BadStatusRetried ==
    \A c \in 1..MaxCalls :
        (rc[c].phase = "raised" /\ rc[c].last = "bad_status")
            => /\ rc[c].attempt_number = MAX_RETRIES
               /\ rc[c].error = "RetryError"

----------------------------------------------------------------------------
(* Properties of the limiter *)

Reverse(s) == [i \in 1..Len(s) |-> s[Len(s) + 1 - i]]

IsUserGate(g) == \E u \in UserIds : g = _per_user_audio(u)

\* the number of permits of gate g that task t holds
RECURSIVE Count(_, _)
Count(s, g) ==
    IF s = <<>> THEN 0
    ELSE (IF Head(s) = g THEN 1 ELSE 0) + Count(Tail(s), g)

Holders(g) == {t \in Tasks : Count(lg[t].held, g) > 0}

\* some task waits and no task can take a step
Deadlocked ==
    /\ \E t \in Tasks : lg[t].phase = "waiting"
    /\ \A t \in Tasks : lg[t].phase \in {"waiting", "done"} \/ lg[t].sems = <<>>

\* C16: a task in a LimitGroup takes Global, then its service gate, then the
\* per-user gate if there is one; the gates it holds are always the first
\* ones of this list, with none skipped; once it leaves, whether its call
\* returned or raised, it gives the gates back last taken first, and when it
\* is done it has given back each gate once.
C16_GateOrdering ==
    \A t \in Tasks :
        LET l == lg[t] IN
        /\ l.sems[1] = GLOBAL_SEM
        /\ l.sems[2] \in ServiceGates
        /\ Len(l.sems) \in {2, 3}
        /\ Len(l.sems) = 3 => IsUserGate(l.sems[3])
        /\ Len(l.held) <= Len(l.sems)
        /\ l.held = SubSeq(l.sems, 1, Len(l.held))
        /\ l.phase \in {"idle", "entering", "waiting", "inside"} => l.released = <<>>
        /\ l.phase = "inside" => l.held = l.sems
        /\ l.phase \in {"leaving", "done"} => l.held \o Reverse(l.released) = l.sems
        /\ l.phase = "done" => l.held = <<>>

\* a task whose guarded call raised has left a group of three gates
C16_Witness ==
    \E t \in Tasks :
        /\ lg[t].phase = "done"
        /\ lg[t].raised
        /\ lg[t].released = <<_per_user_audio("u1"), OPENAI_SEM, GLOBAL_SEM>>

\* C17: with every task entering one group of the module, no state is
\* reached where tasks wait for a gate and no task can move; and with a fair
\* event loop every task gets through its group.
C17_DeadlockFree ==
    /\ []~Deadlocked
    /\ \A t \in Tasks : <>(lg[t].phase = "done")

\* a task queues for a gate whose permits are all taken
C17_Witness ==
    \E t \in Tasks, g \in Gates :
        /\ lg[t].phase = "waiting"
        /\ sem[g].waiters # <<>>
        /\ Head(sem[g].waiters) = t
        /\ sem[g].value = 0

\* C18: no deadlock is reachable either when tasks already inside one group
\* enter a second one, whatever the gate limits.
C18_NestedDeadlockFree == ~Deadlocked

\* C18 amended: under nesting no deadlock is reachable when the limit of
\* every gate a task takes exceeds the number of nesting tasks.
C18_NestedDeadlockFreeAmended ==
    (\A t \in NestingTasks : \A i \in 1..Len(lg[t].sems) :
         limit[lg[t].sems[i]] > Cardinality(NestingTasks))
        => ~Deadlocked

\* with limits above the number of nesting tasks, a task inside its first
\* group waits for its second global permit
C18_Witness ==
    /\ \A t \in NestingTasks : \A i \in 1..Len(lg[t].sems) :
           limit[lg[t].sems[i]] > Cardinality(NestingTasks)
    /\ \E t \in NestingTasks :
           /\ lg[t].phase = "waiting"
           /\ Count(lg[t].held, GLOBAL_SEM) = 1
           /\ Len(lg[t].held) >= 2
           /\ Head(sem[GLOBAL_SEM].waiters) = t

\* C19: for every gate, the tasks holding a permit are no more than the
\* gate's limit, and its free permits are between 0 and the limit.
C19_GateCapacity ==
    \A g \in Gates :
        /\ Cardinality(Holders(g)) <= limit[g]
        /\ sem[g].value >= 0
        /\ sem[g].value <= limit[g]

\* a gate is full and a task queues for it
C19_Witness ==
    \E g \in Gates :
        /\ Cardinality(Holders(g)) = limit[g]
        /\ sem[g].value = 0
        /\ sem[g].waiters # <<>>

----------------------------------------------------------------------------
(* Properties of the chat engine over the service layer *)

\* C11: when the Respond call of a request fails for good on transient
\* errors, the request fails and the session persisted for the thread equals
\* the one persisted before the request.
C11_RespondExhaustion ==
    (pc = "done" /\ task.call_model = "failed")
        => (outcome = "500" /\ cur = pre)

\* C12: a request that fails after the fan-in has merged its results, as
\* when the Summarize call fails, leaves the persisted session as it was
\* before the request: neither the new assistant turn nor the correction
\* stays.
C12_AtomicAfterFanIn ==
    (pc = "done" /\ task.summarize_conversation = "failed")
        => cur = pre

\* an LLM call of the request in hand is in flight
LLMInFlight ==
    \/ pc \in {"generate_initial_question", "summarize_conversation"}
    \/ pc = "parallel" /\ \E n \in LLMNodes : task[n] = "running"

\* C20: while an external call is in flight (an LLM call of a request, or an
\* attempt of a speech, transcription or upload call) a permit of the global
\* gate and a permit of a service gate are taken.
C20_CallsGated ==
    (LLMInFlight \/ \E c \in 1..MaxCalls : rc[c].phase = "attempt")
        => /\ sem[GLOBAL_SEM].value < limit[GLOBAL_SEM]
           /\ \E g \in ServiceGates : sem[g].value < limit[g]

----------------------------------------------------------------------------
(* Properties of the routing *)

\* the nodes of the ongoing-turn branch
TurnNodes == {"call_model", "correct_response", "summarize_conversation"}

\* the request in hand has been accepted and has left initialize_state
Routed == pc \notin {"idle", "initialize_state"} /\ outcome # "422"

\* turns of the thread once the input is merged: the stored ones and the
\* request's user message, if any
TurnsAfterInput == Len(pre.messages) + (IF req.message = None THEN 0 ELSE 1)

\* C21: an accepted request that carries no user message results in opening
\* generation only: one assistant turn more and no call of the ongoing-turn
\* branch, whatever turns the thread holds.
C21_NoMessageMeansOpening ==
    (Routed /\ req.message = None)
        => /\ \A n \in TurnNodes : task[n] = "idle"
           /\ pc \in {"generate_initial_question", "done"}
           /\ (pc = "done" /\ outcome = "200")
                  => /\ Len(cur.messages) = Len(pre.messages) + 1
                     /\ cur.messages[Len(cur.messages)].type = "ai"

InputFault ==
    \/ _validate_init_requirements(req) # {}
    \/ task.generate_initial_question = "unsupported"

\* the request in hand failed on a capability call
RetryLater == \E n \in LLMNodes : task[n] = "failed"

\* C22: a failed request is answered with an outcome that tells the input
\* faults from the retry-later failures: no input fault gets the outcome of
\* a capability failure.
C22_TypedErrors ==
    (pc = "done" /\ outcome # "200")
        => /\ InputFault => outcome = "422"
           /\ RetryLater => outcome = "500"

\* C24: in a request routed to generate_initial_question the opening turn is
\* produced without any call of a generation, correction or summarization
\* capability.
C24_OpeningWithoutLLM ==
    (pc = "done" /\ outcome = "200" /\ task.generate_initial_question = "done")
        => \A n \in LLMNodes : resp[n] = None

\* C24 amended: such a request makes one call, to the generation capability,
\* whose answer is the opening turn, and no correction or summarization call.
C24_OpeningOneGeneration ==
    (pc = "done" /\ outcome = "200" /\ task.generate_initial_question = "done")
        => /\ resp.generate_initial_question # None
           /\ cur.messages[Len(cur.messages)].type = "ai"
           /\ cur.messages[Len(cur.messages)].content
                  = resp.generate_initial_question[1].foreign_language_message
           /\ \A n \in TurnNodes : resp[n] = None /\ task[n] = "idle"

\* an opening has been generated on a thread never seen
C24_Witness ==
    /\ pc = "done" /\ outcome = "200"
    /\ task.generate_initial_question = "done"
    /\ pre.messages = <<>>
    /\ Len(cur.messages) = 1
    /\ resp.generate_initial_question # None

----------------------------------------------------------------------------
(* Properties of the fan-in and of Compact *)

\* C25: in an ongoing-turn request should_summarize, and summarize_conversation
\* after it, see a state in which call_model and correct_response have both
\* completed and both results are merged: the turns are those of the fan-out
\* plus the new assistant turn, the new correction is in the map.  The
\* predicate is evaluated once: fanin_after_processing is entered from the
\* fan-out only and left for summarize_conversation or the end, and
\* summarize_conversation runs only when the predicate held on that count.
C25_BarrierOrdering ==
    /\ [](pc \in {"fanin_after_processing", "summarize_conversation"}
            => /\ task.call_model = "done"
               /\ task.correct_response = "done"
               /\ Len(cur.messages) = Len(snap.messages) + 1
               /\ cur.messages[Len(cur.messages)].type = "ai"
               /\ cur.messages[Len(cur.messages)].content
                      = resp.call_model[1].foreign_language_message
               /\ \A id \in DOMAIN writes.correct_response.corrections :
                      /\ id \in DOMAIN cur.corrections
                      /\ cur.corrections[id] = writes.correct_response.corrections[id]
               /\ pc = "summarize_conversation"
                      => Len(snap.messages) + 1 > MESSAGES_BEFORE_SUMMARY)
    /\ [][/\ (pc' = "fanin_after_processing" /\ pc # "fanin_after_processing")
                 => pc = "parallel"
          /\ pc = "fanin_after_processing"
                 => pc' \in {"fanin_after_processing", "summarize_conversation", "done"}
          /\ (pc' = "summarize_conversation" /\ pc # "summarize_conversation")
                 => pc = "fanin_after_processing"
          /\ pc = "summarize_conversation"
                 => pc' \in {"summarize_conversation", "done"}]_vars

\* Compact is about to run on 31 turns, the new assistant turn among them
C25_Witness ==
    /\ pc = "summarize_conversation"
    /\ Len(cur.messages) = MESSAGES_BEFORE_SUMMARY + 1
    /\ cur.messages[Len(cur.messages)].type = "ai"
    /\ task.call_model = "done"
    /\ task.correct_response = "done"

\* C26: the turn correct_response evaluates is the most recent user turn of
\* the session: every key it writes to the correction map is the id of a user
\* turn, also for a request without a message on a thread that has turns.
C26_CorrectTargetsUserTurn ==
    (pc \in {"parallel", "fanin_after_processing"}
         /\ writes.correct_response # NoUpdate)
        => \A id \in DOMAIN writes.correct_response.corrections :
              \E i \in DOMAIN snap.messages :
                  /\ snap.messages[i].id = id
                  /\ snap.messages[i].type = "human"
                  /\ \A j \in DOMAIN snap.messages :
                         j > i => snap.messages[j].type # "human"

\* the session the fan-in left, on which should_summarize and
\* summarize_conversation run
AtFanIn == ApplyWrites(snap, FanOutWrites, uid - SumNewIds(FanOutWrites))

\* C27: when summarize_conversation runs on a session with no turn older
\* than the last KEEP, Summarize is not called, the summary stays and no turn
\* is removed.
C27_EmptyOlderNoOp ==
    (/\ pc = "done"
     /\ task.summarize_conversation = "done"
     /\ Len(AtFanIn.messages) <= MESSAGES_TO_KEEP)
        => /\ resp.summarize_conversation = None
           /\ cur.summary = AtFanIn.summary
           /\ cur.messages = AtFanIn.messages

\* Python's s[-k:] for k > 0
LastK(s, k) == SubSeq(s, Max(Len(s) - k, 0) + 1, Len(s))

Ids(ms) == {ms[i].id : i \in DOMAIN ms}

\* Compact has run and succeeded in the request in hand
Compacted == pc = "done" /\ task.summarize_conversation = "done"

\* C28: after a successful Compact the turns are exactly the last KEEP turns
\* of the sequence Compact ran on, same order, same ids, same content, and
\* the turns removed are exactly those before them.
C28_CompactRemovesPrefix ==
    Compacted =>
        /\ cur.messages = LastK(AtFanIn.messages, MESSAGES_TO_KEEP)
        /\ Ids(AtFanIn.messages) \ Ids(cur.messages)
               = Ids(AllButLast(AtFanIn.messages, MESSAGES_TO_KEEP))

\* Compact has removed turns and kept KEEP of them
C28_Witness ==
    /\ Compacted
    /\ Len(cur.messages) = MESSAGES_TO_KEEP
    /\ Len(AtFanIn.messages) > MESSAGES_BEFORE_SUMMARY
    /\ cur.messages[1] = AtFanIn.messages[Len(AtFanIn.messages) - MESSAGES_TO_KEEP + 1]

\* C29: whenever a step removes turns of a thread or changes its summary, the
\* step is a Summarize call returning: the turns removed were all among the
\* turns handed to that call, the summary afterwards is the text the call
\* returned, and turns were removed in that same step.
C29_SummarySubsumption ==
    [][\A t \in Threads :
          LET removed == Ids(store[t].messages) \ Ids(store'[t].messages) IN
          (removed # {} \/ store'[t].summary # store[t].summary)
              => /\ pc = "summarize_conversation"
                 /\ req.thread_id = t
                 /\ resp'.summarize_conversation # None
                 /\ store'[t].summary = resp'.summarize_conversation[1].summary
                 /\ removed # {}
                 /\ removed \subseteq
                        Ids(summary_prompt_input(store[t]).messages_to_summarize)]_vars

\* a summary that replaced an earlier one, with fewer turns than before
C29_Witness ==
    /\ Compacted
    /\ cur.summary # ""
    /\ cur.summary # AtFanIn.summary
    /\ Len(cur.messages) < Len(AtFanIn.messages)

\* C30: Compact changes the summary and the turns only: the correction map,
\* the initialization parameters and the prompt helper are after Compact what
\* they were before it.
C30_CompactFrame ==
    Compacted =>
        \A k \in Channels \ {"messages", "summary"} : cur[k] = AtFanIn[k]

\* Compact has removed turns of a session that holds a correction
C30_Witness ==
    /\ Compacted
    /\ cur.corrections # NoCorrections
    /\ cur.prompt_helper # None
    /\ Len(cur.messages) < Len(AtFanIn.messages)

\* the ids of the turns grow along the sequence: ids are handed out in the
\* order the turns are created
InCreationOrder(ms) ==
    \A i, j \in DOMAIN ms : i < j => ms[i].id < ms[j].id

\* s is what is left of old when its first turns are removed
IsSuffix(s, old) == \E k \in 0..Len(old) : s = SubSeq(old, k + 1, Len(old))

\* new is old with turns appended that old does not hold
Appends(old, new) ==
    /\ Len(new) >= Len(old)
    /\ SubSeq(new, 1, Len(old)) = old
    /\ \A i \in (Len(old) + 1)..Len(new) : new[i].id \notin Ids(old)

\* C31: Turn identity. In every session the ids of the turns are pairwise
\* distinct and the turns stand in the order they were created; from one
\* persisted state to the next the sequence changes only by new turns being
\* appended at its end, or by Compact removing turns from its front: no turn
\* is modified, reordered or removed otherwise.
C31_TurnIdentity ==
    /\ [](\A t \in Threads :
             /\ Cardinality(Ids(store[t].messages)) = Len(store[t].messages)
             /\ InCreationOrder(store[t].messages))
    /\ [][\A t \in Threads :
             \/ Appends(store[t].messages, store'[t].messages)
             \/ /\ pc = "summarize_conversation"
                /\ IsSuffix(store'[t].messages, store[t].messages)]_vars

\* a request that has appended a user turn and an assistant turn and whose
\* Compact has removed turns from the front
C31_Witness ==
    /\ Compacted
    /\ Len(pre.messages) > 0
    /\ cur.messages[1].id > pre.messages[1].id
    /\ cur.messages[Len(cur.messages)].id > pre.messages[Len(pre.messages)].id + 1
    /\ cur.messages[Len(cur.messages) - 1].type = "human"

\* the configuration the stored parameters of a session give, with the
\* defaults of initialize_state for those never supplied
DerivedHelper(state) ==
    ChatPromptHelper(Get(state.student_level, "B2"),
                     Get(state.foreign_language, "Spanish (Spain)"),
                     Get(state.native_language, "English (US)"))

\* C32: Configuration follows stored parameters. At the end of every request
\* that was answered, the prompt_helper of the session is the one derived
\* from the level, target language and native language the session stores
\* then; so after a request that supplies a different value for one of them
\* the nodes build their prompts from the new value.
C32_ConfigFollowsParams ==
    (pc = "done" /\ outcome = "200")
        => cur.prompt_helper = Some(DerivedHelper(cur))

\* the waits of the claim, in seconds: the n-th is the one before attempt n + 1
BackoffSchedule == <<1, 2, 4, 6>>

\* C33: Backoff schedule. The wait before attempt n + 1 of a retried call
\* (n = 1..4) is 1, 2, 4 and 6 seconds: a call that sleeps has made at most
\* four attempts and sleeps the n-th wait of the schedule, an attempt after
\* the first was preceded by the wait of its predecessor, and a call that has
\* made its fifth attempt does not sleep again.
C33_BackoffSchedule ==
    \A c \in 1..MaxCalls :
        /\ rc[c].phase = "sleeping"
               => /\ rc[c].attempt_number \in 1..Len(BackoffSchedule)
                  /\ rc[c].slept = BackoffSchedule[rc[c].attempt_number]
        /\ (rc[c].phase # "sleeping" /\ rc[c].attempt_number > 1)
               => rc[c].slept = BackoffSchedule[rc[c].attempt_number - 1]
        /\ rc[c].attempt_number = 1 => rc[c].phase = "sleeping" \/ rc[c].slept = 0

\* a call of each kind making its last attempt after the longest wait
C33_Witness ==
    /\ rc[1].kind = "upload_audio_to_supabase"
    /\ rc[2].kind = "generate_speech"
    /\ \A c \in 1..2 :
          /\ rc[c].phase = "attempt"
          /\ rc[c].attempt_number = MAX_RETRIES
          /\ rc[c].slept = 6

\* C34: FanOut isolation. While the two branches of an ongoing turn run, the
\* state either of them is handed is the snapshot taken at the fan-out,
\* whichever of them has returned already: the write of call_model is the one
\* it computes from the snapshot, the write of correct_response likewise, the
\* turns read hold no assistant turn of this request and the corrections read
\* hold no record of this request.
C34_FanOutIsolation ==
    pc = "parallel" =>
        /\ cur = snap
        /\ task.call_model = "done"
               => /\ writes.call_model = call_model(snap, resp.call_model[1])
                  /\ Len(cur.messages) = Len(snap.messages)
        /\ task.correct_response = "done"
               => /\ writes.correct_response
                         = correct_response(snap, resp.correct_response[1])
                  /\ DOMAIN writes.correct_response.corrections
                         = {snap.messages[Len(snap.messages)].id}
                  /\ \A id \in DOMAIN writes.correct_response.corrections :
                         id \notin DOMAIN cur.corrections

\* Correct has returned a record and Respond, still running, is about to read
\* a session that already holds corrections of earlier turns
C34_Witness ==
    /\ pc = "parallel"
    /\ task.correct_response = "done"
    /\ task.call_model = "running"
    /\ writes.correct_response.corrections # NoCorrections
    /\ cur.corrections # NoCorrections

\* the other completion order: Respond has returned, Correct is still running
C34_WitnessRespondFirst ==
    /\ pc = "parallel"
    /\ task.call_model = "done"
    /\ task.correct_response = "running"

\* the request in hand lacks one of the three required fields
LacksInitField == \E f \in RequiredFields : req.params[f] \in {None, Some("")}

\* C36: First-turn validation at the transport boundary. A request is
\* answered 422 exactly when it carries no message and lacks (null or empty)
\* one of student_level, foreign_language, native_language; it is then turned
\* down before the graph runs: no node has run and the session of its thread
\* is what it was, nothing of the request stored. A request that carries a
\* message is never answered 422.
C36_FirstTurnValidation ==
    pc # "idle" =>
        /\ (req.message = None /\ LacksInitField)
               <=> (pc = "done" /\ outcome = "422")
        /\ req.message # None => outcome # "422"
        /\ outcome = "422"
               => /\ cur = pre
                  /\ task = IdleTasks
                  /\ writes = NoWrites
                  /\ resp = NoResponses

\* a request without message whose level is the empty string, turned down on
\* a thread that holds a session
C36_Witness ==
    /\ pc = "done"
    /\ outcome = "422"
    /\ req.message = None
    /\ req.params.student_level = Some("")
    /\ req.params.foreign_language # None
    /\ Len(cur.messages) > 0

\* the request in hand started on a session within the threshold
WithinAtStart == Len(pre.messages) <= MESSAGES_BEFORE_SUMMARY

Running == pc \notin {"idle", "done"}

\* C37: Bounded active window at rest. A request that starts on a session of
\* at most THRESHOLD (30) turns, as every request of a run of answered
\* requests from the empty session does, and is answered leaves at most 30
\* turns; inside such a request more than 30 turns exist only between FanIn
\* and Compact.
C37_BoundedAtRest ==
    WithinAtStart =>
        /\ (pc = "done" /\ outcome = "200")
               => Len(cur.messages) <= MESSAGES_BEFORE_SUMMARY
        /\ (Running /\ Len(cur.messages) > MESSAGES_BEFORE_SUMMARY)
               => pc \in {"fanin_after_processing", "summarize_conversation"}

\* C37 as the code has it: the excess starts when the user message of the
\* request is merged, one turn over the threshold until the fan-in, and ends
\* with Compact.
C37_BoundedAtRestAmended ==
    WithinAtStart =>
        /\ (pc = "done" /\ outcome = "200")
               => Len(cur.messages) <= MESSAGES_BEFORE_SUMMARY
        /\ (Running /\ Len(cur.messages) > MESSAGES_BEFORE_SUMMARY)
               => \/ pc \in {"fanin_after_processing", "summarize_conversation"}
                  \/ /\ pc \in {"initialize_state", "fanout_after_init", "parallel"}
                     /\ req.message # None
                     /\ Len(pre.messages) = MESSAGES_BEFORE_SUMMARY
                     /\ Len(cur.messages) = MESSAGES_BEFORE_SUMMARY + 1

\* a request that took a session of 30 turns over the threshold and was
\* answered with the session compacted
C37_Witness ==
    /\ pc = "done"
    /\ outcome = "200"
    /\ Len(pre.messages) = MESSAGES_BEFORE_SUMMARY
    /\ Len(AtFanIn.messages) = MESSAGES_BEFORE_SUMMARY + 2
    /\ Len(cur.messages) = MESSAGES_TO_KEEP

\* the tasks of user u that are inside their guarded section
InsideOf(u) == {t \in Tasks : lg[t].user_id = u /\ lg[t].phase = "inside"}

\* task t has its first two gates and queues for the third, the per-user one
WaitsAtUserGate(t) == lg[t].phase = "waiting" /\ Len(lg[t].held) = 2

\* the tasks that hold a third gate
HoldsUserGate(t) == Len(lg[t].held) = 3

\* C35: Per-user fairness gate. Of the tasks that call openai_limits with the
\* same user id at most PER_USER_AUDIO_LIMIT (2) are inside their guarded
\* section at once; a task that queues at the per-user gate is kept out by
\* two tasks of its own user, never by a task of another user; and a task
\* that gives no user id takes Global and the service gate only.
C35_PerUserGate ==
    /\ \A u \in AudioUsers : Cardinality(InsideOf(u)) <= PER_USER_AUDIO_LIMIT
    /\ \A t \in Tasks :
          WaitsAtUserGate(t)
              => /\ lg[t].user_id # ""
                 /\ Cardinality({x \in Tasks \ {t} :
                                    /\ HoldsUserGate(x)
                                    /\ lg[x].user_id = lg[t].user_id})
                        = PER_USER_AUDIO_LIMIT
    /\ \A t \in Tasks :
          lg[t].user_id = ""
              => /\ Len(lg[t].sems) = 2
                 /\ \A i \in DOMAIN lg[t].held :
                        lg[t].held[i] \in {GLOBAL_SEM, OPENAI_SEM}
                 /\ \A i \in DOMAIN lg[t].released :
                        lg[t].released[i] \in {GLOBAL_SEM, OPENAI_SEM}

\* two tasks of one user are inside, the third task of that user queues at
\* the per-user gate
C35_Witness ==
    /\ Cardinality(InsideOf("u1")) = PER_USER_AUDIO_LIMIT
    /\ \E t \in Tasks : WaitsAtUserGate(t) /\ lg[t].user_id = "u1"

\* the gate of one user is full and a task of the other user is inside
C35_WitnessOtherUser ==
    /\ Cardinality(InsideOf("u1")) = PER_USER_AUDIO_LIMIT
    /\ Cardinality(InsideOf("u2")) = 1

\* no task is inside a LimitGroup or on its way in or out
NoTaskInGroup == \A t \in Tasks : lg[t].phase \in {"idle", "done", "cancelled"}

\* C38: No permit leak on interrupted acquisition. A task that was cancelled
\* while it waited for a gate of its group holds none of the gates it had
\* taken before; and whenever no task is inside or entering a group every
\* gate has as many free permits as its limit.
C38_NoPermitLeak ==
    /\ \A t \in Tasks : lg[t].phase = "cancelled" => lg[t].held = <<>>
    /\ NoTaskInGroup => \A g \in Gates : sem[g].value = limit[g]

\* the speech and transcription calls that are between their first attempt
\* and their end: attempting or sleeping before the next attempt
InProgress ==
    {c \in DOMAIN rc : rc[c].kind \in BehindSttSem
                       /\ rc[c].phase \in {"attempt", "sleeping"}}

\* C39: Audio slot held across retries. A speech or transcription call takes
\* one slot of STT_SEM before its first attempt and keeps it through every
\* attempt and every backoff wait until it returns or fails for good, then
\* gives it back once: the free slots are always 20 less the calls in
\* progress, a call that waits for a slot has made no attempt, and at most 20
\* such calls are in progress.
C39_SlotHeldAcrossRetries ==
    /\ Cardinality(InProgress) <= CONCURRENCY_LIMIT
    /\ stt.value = CONCURRENCY_LIMIT - Cardinality(InProgress)
    /\ \A c \in DOMAIN rc :
          /\ rc[c].phase = "waiting"
                 <=> \E i \in DOMAIN stt.waiters : stt.waiters[i] = c
          /\ rc[c].phase = "waiting"
                 => rc[c].attempt_number = 0 /\ rc[c].kind \in BehindSttSem
    /\ stt.waiters # <<>> => stt.value = 0

\* every slot is taken, the last one by a call that sleeps between two
\* attempts, and another call waits for a slot
C39_Witness ==
    /\ Cardinality(InProgress) = CONCURRENCY_LIMIT
    /\ \E c \in 1..MaxCalls :
          /\ rc[c].phase = "sleeping"
          /\ rc[c].attempt_number > 1
          /\ rc[c].kind = "transcribe_audio"
    /\ stt.waiters # <<>>

\* the thread of the request that takes the step: the one in hand, or the
\* one the step admits
ThreadOfStep == IF pc = "idle" THEN req'.thread_id ELSE req.thread_id

\* C40: Thread isolation. Whatever the interleaving of the requests of two
\* threads, a step of a request, answered or failed, changes the persisted
\* session of no thread but its own; and a request that comes without thread
\* id runs on an id that held no session, so that every session that existed
\* is left as it was.
C40_ThreadIsolation ==
    [][/\ \A t \in DOMAIN store :
              store'[t] # store[t] => t = ThreadOfStep
       /\ (pc = "idle" /\ req' # req /\ req'.thread_id \in GeneratedIds
               /\ store[req'.thread_id] = EmptyState)
              => \A t \in DOMAIN store :
                     store[t] # EmptyState => store'[t] = store[t]]_vars

\* two requests in flight: the one in hand has compacted its thread, the
\* suspended one waits at its fan-out on another thread that holds a session
C40_Witness ==
    /\ Compacted
    /\ susp.pc = "parallel"
    /\ susp.req.thread_id # req.thread_id
    /\ store[susp.req.thread_id] = susp.snap
    /\ Len(susp.snap.messages) > 0

\* a request that came without thread id has been answered on a generated id
\* while the threads of the clients hold sessions
C40_WitnessGenerated ==
    /\ pc = "done"
    /\ outcome = "200"
    /\ req.thread_id \in GeneratedIds
    /\ \A t \in ClientThreads : store[t] # EmptyState

====
